---- MODULE Spec2Model ----
(***************************************************************************)
(* Corsair Link over USB HID: the packet codec (protocol/usbhid.rs), the   *)
(* write-then-read exchange of the backend (backends/usbhid.rs) and the    *)
(* H110i register catalogue (devices/cooler/h110i.rs).                     *)
(*                                                                         *)
(* Rust slices are 0-based; the helpers At, Put and Slice keep the         *)
(* source's 0-based indices over TLA+'s 1-based sequences.  A panic (index *)
(* out of range, arithmetic overflow in a build with overflow checks) is   *)
(* an outcome of its own, kind "Panic", never an error value.              *)
(***************************************************************************)
EXTENDS Integers, Sequences, FiniteSets, TLC

VARIABLES
    overflow_checks,  \* build profile: TRUE = debug (u8 overflow panics), FALSE = release (wraps)
    tx,               \* the TxPacket: [first_command_id, commands]
    pc,               \* position of the caller
    encoded,          \* what TxPacket::encode returned
    response,         \* the report handed to RxPacket::decode
    rx,               \* what RxPacket::decode (or write_packet) returned
    io,               \* the transport calls of write_packet, in order
    handed,           \* the buffers write_packet handed to RxPacket::decode
    shape,            \* how the controller built the report: [layout, v, badId, badLen]
    dev,              \* the cooler Device: command_id, the unit counts and the readings
    link              \* the interrupt endpoint: [unread, taken], the reports no read has taken yet

vars == <<overflow_checks, dev, link, tx, pc, encoded, response, rx, io, handed, shape>>

(***************************************************************************)
(* Bounds of the model.                                                    *)
(***************************************************************************)
\* longest batch drawn freely from CommandPool
MaxCommands == 4
\* longest batch made of one repeated command (poll_* repeat a group per unit)
MaxRepeat == 17
\* longest freely drawn batch whose response is decoded
MaxRxCommands == 3
\* longest batch handed to write_packet
MaxExchangeCommands == 2
\* most commands in an input of the response parser
MaxParsed == 3
\* the LEDs, temperature sensors and fans the controller reports, of each kind
MaxUnits == 1
\* a poll that appends is called while its vector is shorter than this
MaxReadings == 2

(***************************************************************************)
(* Program constants.                                                      *)
(***************************************************************************)
PACKET_SIZE == 64
FIRST_COMMAND_ID == 20

u8(n) == n % 256

At(buf, i) == buf[i + 1]
Put(buf, i, b) == [buf EXCEPT ![i + 1] = b]
\* &buf[a..b]
Slice(buf, a, b) == SubSeq(buf, a + 1, b)
\* buf with s copied over buf[a .. a + len(s)]
Splice(buf, a, s) ==
    [j \in 1..Len(buf) |-> IF j > a /\ j <= a + Len(s) THEN s[j - a] ELSE buf[j]]
Zeros(n) == [j \in 1..n |-> 0]

(***************************************************************************)
(* enum Opcode, #[repr(u8)].                                               *)
(***************************************************************************)
Opcode ==
    [WriteByte |-> 6, ReadByte |-> 7, WriteWord |-> 8,
     ReadWord |-> 9, WriteBlock |-> 10, ReadBlock |-> 11]

(***************************************************************************)
(* enum Register of the H110i, its wire id (Into<u8>) and its size().      *)
(***************************************************************************)
Register ==
    {"DeviceId", "FirmwareVersion", "ProductName", "Status",
     "LedSelect", "LedCount", "LedMode", "LedColor", "LedCycleColors",
     "TempSensorSelect", "TempSensorCount", "TempSensorValue", "TempSensorLimit",
     "FanSelect", "FanCount", "FanRPM"}

RegisterId(r) ==
    CASE r = "DeviceId" -> 0
      [] r = "FirmwareVersion" -> 1
      [] r = "ProductName" -> 2
      [] r = "Status" -> 3
      [] r = "LedSelect" -> 4
      [] r = "LedCount" -> 5
      [] r = "LedMode" -> 6
      [] r = "LedColor" -> 7
      [] r = "LedCycleColors" -> 11
      [] r = "TempSensorSelect" -> 12
      [] r = "TempSensorCount" -> 13
      [] r = "TempSensorValue" -> 14
      [] r = "TempSensorLimit" -> 15
      [] r = "FanSelect" -> 16
      [] r = "FanCount" -> 17
      [] r = "FanRPM" -> 22

size(r) ==
    CASE r = "DeviceId" -> 1
      [] r = "FirmwareVersion" -> 2
      [] r = "ProductName" -> 8
      [] r = "Status" -> 1
      [] r = "LedSelect" -> 1
      [] r = "LedCount" -> 1
      [] r = "LedMode" -> 1
      [] r = "LedColor" -> 3
      [] r = "LedCycleColors" -> 12
      [] r = "TempSensorSelect" -> 1
      [] r = "TempSensorCount" -> 1
      [] r = "TempSensorValue" -> 2
      [] r = "TempSensorLimit" -> 2
      [] r = "FanSelect" -> 1
      [] r = "FanCount" -> 1
      [] r = "FanRPM" -> 2

(***************************************************************************)
(* enum LedMode and its wire byte.                                         *)
(***************************************************************************)
TempChannel == [InternalSensor |-> 0, Manual |-> 7]

LedModeEncode(mode) ==
    CASE mode.mode = "Static" -> 0
      [] mode.mode = "TwoColorCycle" -> 64 + (mode.arg % 16)
      [] mode.mode = "FourColorCycle" -> 128 + (mode.arg % 16)
      [] mode.mode = "Temperature" -> 192 + TempChannel[mode.arg]

(***************************************************************************)
(* enum RegisterValue: [variant, args], args being the constructor's       *)
(* fields.  encode writes the value into buf and answers Some(n), or       *)
(* answers None (buf untouched) for a variant it does not serialise.       *)
(***************************************************************************)
RegisterValue(variant, args) == [variant |-> variant, args |-> args]
NoValue == RegisterValue("-", <<>>)

ValueBytes(value) ==
    CASE value.variant \in {"LedSelect", "TempSensorSelect", "FanSelect"} -> value.args
      [] value.variant = "LedMode" -> <<LedModeEncode(value.args[1])>>
      [] value.variant = "LedCycleColors" ->
            value.args[1] \o value.args[2] \o value.args[3] \o value.args[4]
      [] value.variant = "TempSensorLimit" -> value.args
      [] OTHER -> <<>>

ValueEncode(value, buf) ==
    LET bytes == ValueBytes(value) IN
    IF bytes = <<>> THEN [kind |-> "None", n |-> 0, buf |-> buf]
    ELSE IF Len(buf) < Len(bytes) THEN [kind |-> "Panic", n |-> 0, buf |-> buf]
    ELSE [kind |-> "Some", n |-> Len(bytes), buf |-> Splice(buf, 0, bytes)]

(***************************************************************************)
(* enum Command<R,V>: Read(R) | Write(R,V).                                *)
(***************************************************************************)
Read(r) == [kind |-> "Read", register |-> r, value |-> NoValue]
Write(r, v) == [kind |-> "Write", register |-> r, value |-> v]

register(c) == c.register

\* mutant: a word register is given the byte opcode
opcode_WordAsByte(c) ==
    IF c.kind = "Read"
    THEN CASE size(c.register) \in {1, 2} -> "ReadByte"
           [] OTHER -> "ReadBlock"
    ELSE CASE size(c.register) \in {1, 2} -> "WriteByte"
           [] OTHER -> "WriteBlock"

opcode(c) ==
    IF c.kind = "Read"
    THEN CASE size(c.register) = 1 -> "ReadByte"
           [] size(c.register) = 2 -> "ReadWord"
           [] OTHER -> "ReadBlock"
    ELSE CASE size(c.register) = 1 -> "WriteByte"
           [] size(c.register) = 2 -> "WriteWord"
           [] OTHER -> "WriteBlock"

\* mutant: a block write is counted one byte longer
CommandLen_BlockWriteLonger(c) ==
    CASE opcode(c) = "ReadByte" -> 2
      [] opcode(c) = "ReadWord" -> 2
      [] opcode(c) = "ReadBlock" -> 3
      [] opcode(c) = "WriteByte" -> 3
      [] opcode(c) = "WriteWord" -> 4
      [] opcode(c) = "WriteBlock" -> 4 + size(register(c))

CommandLen(c) ==
    CASE opcode(c) = "ReadByte" -> 2
      [] opcode(c) = "ReadWord" -> 2
      [] opcode(c) = "ReadBlock" -> 3
      [] opcode(c) = "WriteByte" -> 3
      [] opcode(c) = "WriteWord" -> 4
      [] opcode(c) = "WriteBlock" -> 3 + size(register(c))

\* value.encode(&mut buf[a..b]), its Option dropped as the source drops it
EncodeValueInto(value, buf, a, b) ==
    IF b > Len(buf) THEN [kind |-> "Panic", buf |-> buf]
    ELSE LET r == ValueEncode(value, Slice(buf, a, b)) IN
         IF r.kind = "Panic" THEN [kind |-> "Panic", buf |-> buf]
         ELSE [kind |-> "Ok", buf |-> Splice(buf, a, r.buf)]

\* mutant: the LEN byte of a block command is the length of the command
CommandEncode_LenOfSlice(c, buf) ==
    IF Len(buf) < 2 THEN [kind |-> "Panic", n |-> 0, buf |-> buf]
    ELSE
      LET b1 == Put(Put(buf, 0, Opcode[opcode(c)]), 1, RegisterId(register(c)))
          sz == size(register(c))
          op == opcode(c)
          \* buf[2] = register.size() as u8
          b2 == IF Len(buf) >= 3 THEN Put(b1, 2, u8(Len(buf))) ELSE b1
          w  == CASE op = "WriteByte" -> EncodeValueInto(c.value, b1, 2, 3)
                  [] op = "WriteWord" -> EncodeValueInto(c.value, b1, 2, 4)
                  [] op = "WriteBlock" -> EncodeValueInto(c.value, b2, 3, 3 + sz)
                  [] OTHER -> [kind |-> "Ok", buf |-> b1]
      IN
      CASE op \in {"ReadByte", "ReadWord"} -> [kind |-> "Some", n |-> 2, buf |-> b1]
        [] op = "ReadBlock" ->
              IF Len(buf) < 3 THEN [kind |-> "Panic", n |-> 0, buf |-> buf]
              ELSE [kind |-> "Some", n |-> 3, buf |-> b2]
        [] op \in {"WriteByte", "WriteWord", "WriteBlock"} ->
              IF w.kind = "Panic" THEN [kind |-> "Panic", n |-> 0, buf |-> buf]
              ELSE [kind |-> "Some",
                    n |-> CASE op = "WriteByte" -> 3
                            [] op = "WriteWord" -> 4
                            [] OTHER -> 2 + sz,
                    buf |-> w.buf]

CommandEncode(c, buf) ==
    IF Len(buf) < 2 THEN [kind |-> "Panic", n |-> 0, buf |-> buf]
    ELSE
      LET b1 == Put(Put(buf, 0, Opcode[opcode(c)]), 1, RegisterId(register(c)))
          sz == size(register(c))
          op == opcode(c)
          \* buf[2] = register.size() as u8
          b2 == IF Len(buf) >= 3 THEN Put(b1, 2, u8(sz)) ELSE b1
          w  == CASE op = "WriteByte" -> EncodeValueInto(c.value, b1, 2, 3)
                  [] op = "WriteWord" -> EncodeValueInto(c.value, b1, 2, 4)
                  [] op = "WriteBlock" -> EncodeValueInto(c.value, b2, 3, 3 + sz)
                  [] OTHER -> [kind |-> "Ok", buf |-> b1]
      IN
      CASE op \in {"ReadByte", "ReadWord"} -> [kind |-> "Some", n |-> 2, buf |-> b1]
        [] op = "ReadBlock" ->
              IF Len(buf) < 3 THEN [kind |-> "Panic", n |-> 0, buf |-> buf]
              ELSE [kind |-> "Some", n |-> 3, buf |-> b2]
        [] op \in {"WriteByte", "WriteWord", "WriteBlock"} ->
              IF w.kind = "Panic" THEN [kind |-> "Panic", n |-> 0, buf |-> buf]
              ELSE [kind |-> "Some",
                    n |-> CASE op = "WriteByte" -> 3
                            [] op = "WriteWord" -> 4
                            [] OTHER -> 2 + sz,
                    buf |-> w.buf]

(***************************************************************************)
(* struct TxPacket { first_command_id, commands }.                         *)
(***************************************************************************)
TxPacket(first_command_id, commands) ==
    [first_command_id |-> first_command_id, commands |-> commands]

RECURSIVE TxLenFold(_, _)
TxLenFold(commands, k) ==
    IF k = 0 THEN 1 ELSE TxLenFold(commands, k - 1) + CommandLen(commands[k]) + 1

TxPacketLen(p) == TxLenFold(p.commands, Len(p.commands))

\* command_id += 1 on a u8
NextCommandId(command_id, checks) ==
    IF command_id + 1 > 255
    THEN (IF checks THEN [kind |-> "Panic", id |-> 0] ELSE [kind |-> "Ok", id |-> 0])
    ELSE [kind |-> "Ok", id |-> command_id + 1]

\* the loop body of TxPacket::encode from command k on: cursor i, id command_id
RECURSIVE EncodeLoop(_, _, _, _, _, _)
EncodeLoop(commands, k, i, command_id, buf, checks) ==
    IF k > Len(commands) THEN [kind |-> "Some", buf |-> buf]
    ELSE IF i >= Len(buf) THEN [kind |-> "Panic", buf |-> <<>>]
    ELSE
      LET c  == commands[k]
          b1 == Put(buf, i, command_id)
          j  == i + 1
      IN
      IF j + CommandLen(c) > Len(buf) THEN [kind |-> "None", buf |-> <<>>]
      ELSE
        LET r  == CommandEncode(c, Slice(b1, j, j + CommandLen(c)))
            id == NextCommandId(command_id, checks)
        IN
        IF r.kind = "Panic" \/ id.kind = "Panic" THEN [kind |-> "Panic", buf |-> <<>>]
        ELSE EncodeLoop(commands, k + 1, j + CommandLen(c), id.id,
                        Splice(b1, j, r.buf), checks)

TxPacketEncode(p, checks) ==
    LET len == TxPacketLen(p)
        \* buf[0] = len as u8 - 1
        low == u8(len)
    IN
    IF low = 0 /\ checks THEN [kind |-> "Panic", buf |-> <<>>]
    ELSE EncodeLoop(p.commands, 1, 1, p.first_command_id,
                    Put(Zeros(len), 0, u8(low + 255)), checks)

(***************************************************************************)
(* The earlier codec of src/h110i.rs: Command::len and                     *)
(* Command::encode_into over its own Register enum (same ids and widths).  *)
(***************************************************************************)
LegacyRegister ==
    {"DeviceId", "FirmwareVersion", "ProductName", "Status", "LedSelect",
     "TempSensorSelect", "TempSensorCount", "TempSensorValue", "TempSensorLimit"}

\* RegisterValue::encode_into: the bytes written (none: answers None)
LegacyValueBytes(value) ==
    IF value.variant \in {"LedSelect", "TempSensorSelect", "TempSensorLimit"}
    THEN value.args
    ELSE <<>>

LegacyCommandLen(c) ==
    IF c.kind = "Read" THEN 2 ELSE 2 + size(c.register)

\* Command::encode_into(buf): [kind, n, buf]
encode_into(c, buf) ==
    IF Len(buf) < 2 THEN [kind |-> "Panic", n |-> 0, buf |-> buf]
    ELSE
      LET b1 == Put(Put(buf, 0, Opcode[opcode(c)]), 1, RegisterId(c.register))
          bytes == LegacyValueBytes(c.value)
      IN
      IF c.kind = "Read" THEN [kind |-> "Some", n |-> 2, buf |-> b1]
      ELSE IF Len(buf) < 2 + Len(bytes) THEN [kind |-> "Panic", n |-> 0, buf |-> buf]
      ELSE [kind |-> "Some", n |-> 2 + size(c.register), buf |-> Splice(b1, 2, bytes)]

(***************************************************************************)
(* Strings are sequences of one-character strings (format!) or of bytes    *)
(* (String::from_utf8).  The byte alphabet of the model holds ASCII bytes  *)
(* and 0xFF: over it a byte sequence is valid UTF-8 iff every byte is      *)
(* below 0x80 (0xF8..0xFF occur in no UTF-8 encoding).                     *)
(***************************************************************************)
HexDigit(n) ==
    <<"0", "1", "2", "3", "4", "5", "6", "7",
      "8", "9", "a", "b", "c", "d", "e", "f">>[n + 1]

from_utf8(bytes) ==
    IF \A j \in 1..Len(bytes) : bytes[j] < 128
    THEN [kind |-> "Ok", string |-> bytes]
    ELSE [kind |-> "Err", string |-> <<>>]

\* format!("{:x}.{:x}.{:02x}", (hb & 0xf0) >> 4, hb & 0x0f, lb)
decode_firmware_version(lb, hb) ==
    <<HexDigit(hb \div 16), ".", HexDigit(hb % 16), ".",
      HexDigit(lb \div 16), HexDigit(lb % 16)>>

Ok(v) == [kind |-> "Ok", value |-> v, msg |-> ""]
Err(msg) == [kind |-> "Err", value |-> NoValue, msg |-> msg]
Panic == [kind |-> "Panic", value |-> NoValue, msg |-> ""]

TempChannelDecode(b) ==
    CASE b = 0 -> Ok("InternalSensor")
      [] b = 7 -> Ok("Manual")
      [] OTHER -> Err("Invalid temperature channel for LED mode")

LedModeDecode(b) ==
    CASE b \div 16 = 0 -> Ok([mode |-> "Static", arg |-> 0])
      [] b \div 16 = 4 -> Ok([mode |-> "TwoColorCycle", arg |-> b % 16])
      [] b \div 16 = 8 -> Ok([mode |-> "FourColorCycle", arg |-> b % 16])
      [] b \div 16 = 12 ->
            LET ch == TempChannelDecode(b % 16) IN
            IF ch.kind = "Ok" THEN Ok([mode |-> "Temperature", arg |-> ch.value])
            ELSE Err(ch.msg)
      [] OTHER -> Err("Invalid LED mode byte")

\* data[1..].iter().position(|x| *x == 0): 0-based index into data[1..], or -1
RECURSIVE NullPosition(_, _)
NullPosition(data, n) ==
    IF n + 1 >= Len(data) THEN -1
    ELSE IF At(data, n + 1) = 0 THEN n
    ELSE NullPosition(data, n + 1)

\* <RegisterValue as Value<Register>>::decode(register, data)
ValueDecode(r, data) ==
    LET need == CASE r = "FirmwareVersion" -> 2
                  [] r = "ProductName" -> 1
                  [] r = "LedColor" -> 3
                  [] r = "LedCycleColors" -> 12
                  [] r \in {"TempSensorValue", "TempSensorLimit", "FanRPM"} -> 2
                  [] OTHER -> 1
    IN
    IF Len(data) < need THEN Panic
    ELSE
      CASE r = "FirmwareVersion" ->
              Ok(RegisterValue(r, decode_firmware_version(At(data, 0), At(data, 1))))
        [] r = "ProductName" ->
              LET n == NullPosition(data, 0) IN
              IF n < 0 THEN Err("No null byte found while parsing product name string")
              ELSE LET s == from_utf8(Slice(data, 1, n + 1)) IN
                   IF s.kind = "Ok" THEN Ok(RegisterValue(r, s.string))
                   ELSE Err("FromUtf8Error")
        [] r = "LedMode" ->
              LET m == LedModeDecode(At(data, 0)) IN
              IF m.kind = "Ok" THEN Ok(RegisterValue(r, <<m.value>>)) ELSE Err(m.msg)
        [] r = "LedColor" -> Ok(RegisterValue(r, <<Slice(data, 0, 3)>>))
        [] r = "LedCycleColors" ->
              Ok(RegisterValue(r, <<Slice(data, 0, 3), Slice(data, 3, 6),
                                    Slice(data, 6, 9), Slice(data, 9, 12)>>))
        [] r \in {"TempSensorValue", "TempSensorLimit"} ->
              Ok(RegisterValue(r, <<At(data, 0), At(data, 1)>>))
        [] r = "FanRPM" -> Ok(RegisterValue(r, <<At(data, 0) + 256 * At(data, 1)>>))
        [] OTHER -> Ok(RegisterValue(r, <<At(data, 0)>>))

(***************************************************************************)
(* enum RxCommand<R,V>: Read(R,V) | Write(R).                              *)
(***************************************************************************)
RxRead(r, v) == [kind |-> "Read", register |-> r, value |-> v]
RxWrite(r) == [kind |-> "Write", register |-> r, value |-> NoValue]

\* the slice decode_read hands to V::decode: [kind, buf]
ReadSlice(r, data) ==
    CASE size(r) = 1 ->
            IF Len(data) < 1 THEN [kind |-> "Panic", buf |-> <<>>]
            ELSE [kind |-> "Ok", buf |-> Slice(data, 0, 1)]
      [] size(r) = 2 ->
            IF Len(data) < 2 THEN [kind |-> "Panic", buf |-> <<>>]
            ELSE [kind |-> "Ok", buf |-> Slice(data, 0, 2)]
      [] OTHER ->
            IF Len(data) < 1 THEN [kind |-> "Panic", buf |-> <<>>]
            ELSE IF size(r) # At(data, 0) THEN [kind |-> "Err", buf |-> <<>>]
            ELSE IF size(r) + 2 > Len(data) THEN [kind |-> "Panic", buf |-> <<>>]
            ELSE [kind |-> "Ok", buf |-> Slice(data, 1, size(r) + 2)]

\* mutant: the value is read from the byte after the payload's first byte
decode_read_OneByteLate(r, data) ==
    IF Len(data) < 2 THEN Panic
    ELSE LET s == ReadSlice(r, Tail(data)) IN
         CASE s.kind = "Panic" -> Panic
           [] s.kind = "Err" -> Err("Invalid length byte for block read")
           [] OTHER ->
                 LET v == ValueDecode(r, s.buf) IN
                 IF v.kind = "Ok" THEN Ok(RxRead(r, v.value)) ELSE v

decode_read(r, data) ==
    LET s == ReadSlice(r, data) IN
    CASE s.kind = "Panic" -> Panic
      [] s.kind = "Err" -> Err("Invalid length byte for block read")
      [] OTHER ->
            LET v == ValueDecode(r, s.buf) IN
            IF v.kind = "Ok" THEN Ok(RxRead(r, v.value)) ELSE v

\* mutant: a word read is taken to be as long as a byte read
RxCommandLen_WordAsByte(rc) ==
    IF rc.kind = "Read"
    THEN CASE size(rc.register) \in {1, 2} -> 2
           [] OTHER -> size(rc.register) + 2
    ELSE 1

RxCommandLen(rc) ==
    IF rc.kind = "Read"
    THEN CASE size(rc.register) = 1 -> 2
           [] size(rc.register) = 2 -> 3
           [] OTHER -> size(rc.register) + 2
    ELSE 1

(***************************************************************************)
(* struct RxPacket(Vec<RxCommand>): decode answers [kind, packet, msg].    *)
(***************************************************************************)
RxOk(packet) == [kind |-> "Ok", packet |-> packet, msg |-> ""]
RxErr(msg) == [kind |-> "Err", packet |-> <<>>, msg |-> msg]
RxPanic == [kind |-> "Panic", packet |-> <<>>, msg |-> ""]

\* the loop of RxPacket::decode from command k on: cursor i, expected id command_id
RECURSIVE DecodeLoop(_, _, _, _, _, _, _)
DecodeLoop(commands, data, k, i, command_id, packet, checks) ==
    IF k > Len(commands) THEN RxOk(packet)
    ELSE IF i >= Len(data) THEN RxPanic
    ELSE IF At(data, i) # command_id THEN RxErr("Bad command ID")
    ELSE
      LET c == commands[k]
          rxcommand ==
             IF c.kind = "Read"
             THEN (IF i + 2 > Len(data) THEN Panic
                   ELSE decode_read(c.register, Slice(data, i + 2, Len(data))))
             ELSE Ok(RxWrite(c.register))
          id == NextCommandId(command_id, checks)
      IN
      CASE rxcommand.kind = "Panic" -> RxPanic
        [] rxcommand.kind = "Err" -> RxErr(rxcommand.msg)
        [] OTHER ->
              IF id.kind = "Panic" THEN RxPanic
              ELSE DecodeLoop(commands, data, k + 1, i + RxCommandLen(rxcommand.value) + 1,
                              id.id, Append(packet, rxcommand.value), checks)

\* mutant: a payload that does not decode ends the walk with the commands
\* decoded before it
RxPacketDecode_KeepsDecoded(p, data, checks) ==
    LET whole == DecodeLoop(p.commands, data, 1, 0, p.first_command_id, <<>>, checks)
        prefix(k) == DecodeLoop(SubSeq(p.commands, 1, k), data, 1, 0,
                                p.first_command_id, <<>>, checks)
        good == {k \in 0..Len(p.commands) : prefix(k).kind = "Ok"}
    IN
    IF whole.kind = "Err" /\ whole.msg # "Bad command ID"
    THEN prefix(CHOOSE k \in good : \A h \in good : h <= k)
    ELSE whole

RxPacketDecode(p, data, checks) ==
    DecodeLoop(p.commands, data, 1, 0, p.first_command_id, <<>>, checks)

\* mutant: the entries of Write commands are not left out
read_values_AllEntries(packet) ==
    [j \in 1..Len(packet) |-> packet[j].value]

RECURSIVE read_values(_)
read_values(packet) ==
    IF packet = <<>> THEN <<>>
    ELSE IF Head(packet).kind = "Read"
         THEN <<Head(packet).value>> \o read_values(Tail(packet))
         ELSE read_values(Tail(packet))

(***************************************************************************)
(* The inputs: batches over a pool of commands covering every opcode.      *)
(***************************************************************************)
Black == <<0, 0, 0>>
Red == <<255, 0, 0>>

CommandPool ==
    { Read("DeviceId"), Read("FirmwareVersion"), Read("ProductName"),
      Write("LedSelect", RegisterValue("LedSelect", <<1>>)),
      Write("TempSensorLimit", RegisterValue("TempSensorLimit", <<0, 30>>)),
      Write("LedCycleColors", RegisterValue("LedCycleColors", <<Red, Black, Red, Black>>)),
      Write("TempSensorValue", RegisterValue("TempSensorValue", <<1, 2>>)) }

FirstIds == {FIRST_COMMAND_ID, 253}

RECURSIVE SeqsUpTo(_, _)
SeqsUpTo(S, n) ==
    IF n = 0 THEN {<<>>}
    ELSE LET shorter == SeqsUpTo(S, n - 1) IN
         shorter \cup {Append(s, x) : s \in {t \in shorter : Len(t) = n - 1}, x \in S}

Repeated(S, n) == {[j \in 1..m |-> x] : m \in 1..n, x \in S}

Batches == SeqsUpTo(CommandPool, MaxCommands) \cup Repeated(CommandPool, MaxRepeat)

\* Device::new: command_id FIRST_COMMAND_ID, every unit count 0, no reading
NewDevice ==
    [command_id |-> FIRST_COMMAND_ID, led_count |-> 0,
     temp_sensor_count |-> 0, fan_count |-> 0,
     led_modes |-> <<>>, led_colors |-> <<>>, led_cycle_colors |-> <<>>,
     temperatures |-> <<>>, fan_speeds |-> <<>>]

\* nothing waits at the interrupt endpoint and no report was taken
NoLink == [unread |-> <<>>, taken |-> "-"]

NotEncoded == [kind |-> "-", buf |-> <<>>]
NotDecoded == [kind |-> "-", packet |-> <<>>, msg |-> ""]
NoShape == [layout |-> "-", v |-> 0, badId |-> 0, badLen |-> FALSE]

Init ==
    /\ overflow_checks \in BOOLEAN
    /\ tx \in {TxPacket(id, cs) : id \in FirstIds, cs \in Batches}
    /\ pc = "new"
    /\ encoded = NotEncoded
    /\ response = <<>>
    /\ rx = NotDecoded
    /\ io = <<>>
    /\ handed = <<>>
    /\ shape = NoShape
    /\ dev = NewDevice
    /\ link = NoLink

\* let encoded = packet.encode()
Encode ==
    /\ pc = "new"
    /\ encoded' = TxPacketEncode(tx, overflow_checks)
    /\ pc' = "encoded"
    /\ UNCHANGED <<overflow_checks, dev, link, tx, response, rx, io, handed, shape>>

Next == Encode

Spec == Init /\ [][Next]_vars

(***************************************************************************)
(* The controller's report.  A response command is the echoed id, the      *)
(* opcode and, for a read, the payload, a block payload behind its length  *)
(* byte (the grammar of parser.rs); layout "mirror" is the one that leaves *)
(* the opcode and length bytes out.  The report is PACKET_SIZE bytes, zero *)
(* padded.  badId > 0 replaces the id echoed for command badId, badLen     *)
(* makes every block length byte wrong.                                    *)
(***************************************************************************)
Payload(r, v) ==
    CASE r = "ProductName" ->
            <<<<72, 49, 49, 48, 105, 0, 0, 0>>,
              <<65, 66, 67, 68, 69, 70, 71, 72>>,
              <<72, 255, 0, 0, 0, 0, 0, 0>>>>[v]
      [] r = "LedMode" -> <<<<74>>, <<199>>, <<16>>>>[v]
      [] r = "LedColor" -> <<<<255, 0, 0>>, <<1, 2, 3>>, <<0, 0, 0>>>>[v]
      [] r = "LedCycleColors" ->
            <<<<255, 0, 0, 0, 255, 0, 0, 0, 255, 9, 9, 9>>,
              <<1, 2, 3, 4, 5, 6, 7, 8, 9, 10, 11, 12>>,
              <<0, 0, 0, 0, 0, 0, 0, 0, 0, 0, 0, 0>>>>[v]
      [] size(r) = 2 -> <<<<1, 3>>, <<21, 22>>, <<0, 0>>>>[v]
      [] OTHER -> <<<<42>>, <<21>>, <<0>>>>[v]

PayloadVariants == 1..3

\* offset in the request of the id byte of command k
TxOffset(commands, k) == TxLenFold(commands, k - 1)

ResponseCommand(c, id, layout, v, badLen) ==
    <<id>>
    \o (IF layout = "wire" THEN <<Opcode[opcode(c)]>> ELSE <<>>)
    \o (IF c.kind = "Read"
        THEN (IF layout = "wire" /\ size(c.register) > 2
              THEN <<u8(size(c.register) + (IF badLen THEN 1 ELSE 0))>>
              ELSE <<>>)
             \o Payload(c.register, v)
        ELSE <<>>)

RECURSIVE ResponseBytes(_, _, _, _, _, _, _)
ResponseBytes(commands, request, k, layout, v, badId, badLen) ==
    IF k > Len(commands) THEN <<>>
    ELSE LET echo == At(request, TxOffset(commands, k))
             id == IF badId = k THEN u8(echo + 1) ELSE echo
         IN ResponseCommand(commands[k], id, layout, v, badLen)
            \o ResponseBytes(commands, request, k + 1, layout, v, badId, badLen)

Report(bytes) ==
    [j \in 1..PACKET_SIZE |-> IF j <= Len(bytes) THEN bytes[j] ELSE 0]

Response(p, request, layout, v, badId, badLen) ==
    Report(ResponseBytes(p.commands, request, 1, layout, v, badId, badLen))

DecodePool ==
    { Read("LedMode"), Read("FirmwareVersion"), Read("ProductName"), Read("LedColor"),
      Write("LedSelect", RegisterValue("LedSelect", <<1>>)) }

RxFirstIds == {FIRST_COMMAND_ID, 254}

\* one command followed by repeats of another
Prefixed(S, n) == {<<x>> \o [j \in 1..m |-> y] : x \in S, y \in S, m \in 0..n}

\* the first two commands of get_metadata
ExampleBatch == <<Read("DeviceId"), Read("FirmwareVersion")>>

RxBatches ==
    SeqsUpTo(DecodePool, MaxRxCommands) \cup Prefixed(DecodePool, MaxRepeat) \cup {ExampleBatch}

InitDecode ==
    /\ overflow_checks \in BOOLEAN
    /\ tx \in {TxPacket(id, cs) : id \in RxFirstIds, cs \in RxBatches}
    /\ pc = "new"
    /\ encoded = NotEncoded
    /\ response = <<>>
    /\ rx = NotDecoded
    /\ io = <<>>
    /\ handed = <<>>
    /\ shape = NoShape
    /\ dev = NewDevice
    /\ link = NoLink

\* the controller answers the request that was encoded
Respond ==
    /\ pc = "encoded"
    /\ encoded.kind = "Some"
    /\ \E layout \in {"wire", "mirror"}, v \in PayloadVariants,
          badId \in 0..Len(tx.commands), badLen \in BOOLEAN :
          /\ layout = "mirror" => (badId = 0 /\ ~badLen)
          /\ badId > MaxRxCommands => badId = Len(tx.commands)
          /\ badLen => badId = 0
          /\ response' = Response(tx, encoded.buf, layout, v, badId, badLen)
          /\ shape' = [layout |-> layout, v |-> v, badId |-> badId, badLen |-> badLen]
    /\ pc' = "responded"
    /\ UNCHANGED <<overflow_checks, dev, link, tx, encoded, rx, io, handed>>

\* RxPacket::decode(packet, &buf[..])
Decode ==
    /\ pc = "responded"
    /\ rx' = RxPacketDecode(tx, response, overflow_checks)
    /\ pc' = "decoded"
    /\ UNCHANGED <<overflow_checks, dev, link, tx, encoded, response, io, handed, shape>>

NextDecode == Encode \/ Respond \/ Decode

SpecDecode == InitDecode /\ [][NextDecode]_vars

(***************************************************************************)
(* backends/usbhid.rs, Device::write_packet: one write, then up to three   *)
(* reads of one report each, then decode.  The transport (libusb) is the   *)
(* environment: a call fails or succeeds, and a read that succeeds fills   *)
(* buf with a report: the answer to this request, an answer whose second   *)
(* id is wrong, the answer to the exchange before it, or zeros.            *)
(***************************************************************************)
ExchangePool ==
    { Read("DeviceId"), Read("ProductName"),
      Write("LedSelect", RegisterValue("LedSelect", <<1>>)) }

ExchangeFirstIds == {FIRST_COMMAND_ID, 255}

ExchangeBatches == SeqsUpTo(ExchangePool, MaxExchangeCommands)

StaleFirstId(p) == u8(p.first_command_id + 256 - Len(p.commands))

Reports(p, request) ==
    { Response(p, request, "wire", 1, 0, FALSE),
      Response(p, request, "wire", 1, 2, FALSE),
      Response(p, TxPacketEncode(TxPacket(StaleFirstId(p), p.commands), FALSE).buf,
               "wire", 1, 0, FALSE),
      Zeros(PACKET_SIZE) }

IoWrite(ok) == [op |-> "write", ok |-> ok, buf |-> <<>>]
IoRead(ok, buf) == [op |-> "read", ok |-> ok, buf |-> buf]

InitExchange ==
    /\ overflow_checks \in BOOLEAN
    /\ tx \in {TxPacket(id, cs) : id \in ExchangeFirstIds, cs \in ExchangeBatches}
    /\ pc = "start"
    /\ encoded = NotEncoded
    /\ response = <<>>
    /\ rx = NotDecoded
    /\ io = <<>>
    /\ handed = <<>>
    /\ shape = NoShape
    /\ dev = NewDevice
    /\ link = NoLink

\* let encoded = packet.encode().unwrap();
EncodeUnwrap ==
    /\ pc = "start"
    /\ encoded' = TxPacketEncode(tx, overflow_checks)
    /\ IF encoded'.kind = "Some"
       THEN pc' = "encoded" /\ rx' = rx
       ELSE pc' = "done" /\ rx' = RxPanic
    /\ UNCHANGED <<overflow_checks, dev, link, tx, response, io, handed, shape>>

\* self.write(&encoded[..])?;  let mut buf = vec![0u8; PACKET_SIZE];
TransportWrite ==
    /\ pc = "encoded"
    /\ \E ok \in BOOLEAN :
          /\ io' = Append(io, IoWrite(ok))
          /\ IF ok
             THEN pc' = "reading" /\ rx' = rx /\ response' = Zeros(PACKET_SIZE)
             ELSE /\ pc' = "done"
                  /\ rx' = RxErr("Error writing to USB device")
                  /\ response' = response
    /\ UNCHANGED <<overflow_checks, dev, link, tx, encoded, handed, shape>>

\* mutant: a fourth read is allowed
AfterRead_FourReads(n, buf) ==
    IF n >= 4 THEN "decoding"
    ELSE IF Len(encoded.buf) < 2 THEN "panic"
    ELSE IF At(buf, 0) # At(encoded.buf, 1) THEN "reading"
    ELSE "decoding"

\* after read number n into buf: the position write_packet goes to
AfterRead(n, buf) ==
    IF n >= 3 THEN "decoding"
    ELSE IF Len(encoded.buf) < 2 THEN "panic"
    ELSE IF At(buf, 0) # At(encoded.buf, 1) THEN "reading"
    ELSE "decoding"

\* mutant: the report read does not reach buf
ReadInto_Discarded(buf, report) == buf

\* read_interrupt(INTERRUPT_IN_ENDPOINT, buf, ..): the report is stored over
\* buf from its first byte on; the controller's reports are PACKET_SIZE long
ReadInto(buf, report) ==
    [j \in 1..Len(buf) |-> IF j <= Len(report) THEN report[j] ELSE buf[j]]

ReadsIssued == Cardinality({j \in 1..Len(io) : io[j].op = "read"})

\* mutant: a read that fails is tried again while attempts are left
TransportRead_RetryOnError ==
    /\ pc = "reading"
    /\ \/ /\ io' = Append(io, IoRead(FALSE, <<>>))
          /\ pc' = IF ReadsIssued + 1 >= 3 THEN "done" ELSE "reading"
          /\ rx' = IF ReadsIssued + 1 >= 3 THEN RxErr("Error reading from USB device") ELSE rx
          /\ response' = response
       \/ \E report \in Reports(tx, encoded.buf) :
             LET to == AfterRead(ReadsIssued + 1, report) IN
             /\ io' = Append(io, IoRead(TRUE, report))
             /\ response' = ReadInto(response, report)
             /\ pc' = IF to = "panic" THEN "done" ELSE to
             /\ rx' = IF to = "panic" THEN RxPanic ELSE rx
    /\ UNCHANGED <<overflow_checks, dev, link, tx, encoded, handed, shape>>

\* self.read(buf.as_mut_slice())?;  if buf[0] != encoded[1] { ... }
TransportRead ==
    /\ pc = "reading"
    /\ \/ /\ io' = Append(io, IoRead(FALSE, <<>>))
          /\ pc' = "done"
          /\ rx' = RxErr("Error reading from USB device")
          /\ response' = response
       \/ \E report \in Reports(tx, encoded.buf) :
             LET to == AfterRead(ReadsIssued + 1, report) IN
             /\ io' = Append(io, IoRead(TRUE, report))
             /\ response' = ReadInto(response, report)
             /\ pc' = IF to = "panic" THEN "done" ELSE to
             /\ rx' = IF to = "panic" THEN RxPanic ELSE rx
    /\ UNCHANGED <<overflow_checks, dev, link, tx, encoded, handed, shape>>

\* mutant: a report whose first id still mismatches is not decoded
DecodeResponse_RetriesExhausted ==
    /\ pc = "decoding"
    /\ IF Len(encoded.buf) >= 2 /\ At(response, 0) # At(encoded.buf, 1)
       THEN handed' = handed /\ rx' = RxErr("Retries exhausted")
       ELSE /\ handed' = Append(handed, response)
            /\ rx' = RxPacketDecode(tx, response, overflow_checks)
    /\ pc' = "done"
    /\ UNCHANGED <<overflow_checks, dev, link, tx, encoded, response, io, shape>>

\* protocol::RxPacket::decode(packet, &buf[..])
DecodeResponse ==
    /\ pc = "decoding"
    /\ handed' = Append(handed, response)
    /\ rx' = RxPacketDecode(tx, response, overflow_checks)
    /\ pc' = "done"
    /\ UNCHANGED <<overflow_checks, dev, link, tx, encoded, response, io, shape>>

NextExchange == EncodeUnwrap \/ TransportWrite \/ TransportRead \/ DecodeResponse

SpecExchange == InitExchange /\ [][NextExchange]_vars

(***************************************************************************)
(* devices::cooler::h110i::Device: a session of operations, each one call  *)
(* of execute.  write_packet is taken by its outcomes: it panics when      *)
(* encode gave no buffer or when the batch is empty and a report was read, *)
(* it returns a transport error, or it returns what RxPacket::decode makes *)
(* of the last report read.                                                *)
(***************************************************************************)
\* mutant: the id is advanced with a wrapping add and never rolls over to 20
increment_command_id_Wrapping(command_id, i) == u8(command_id + i)

increment_command_id(command_id, i) ==
    IF command_id + i > 255 THEN FIRST_COMMAND_ID ELSE command_id + i

GetMetadataCommands ==
    <<Read("DeviceId"), Read("FirmwareVersion"), Read("ProductName"),
      Read("LedCount"), Read("TempSensorCount"), Read("FanCount")>>

PollTemperaturesCommands(count) ==
    [j \in 1..(2 * count) |->
        IF j % 2 = 1
        THEN Write("TempSensorSelect", RegisterValue("TempSensorSelect", <<(j - 1) \div 2>>))
        ELSE Read("TempSensorValue")]

PollLedsCommands(count) ==
    [j \in 1..(4 * count) |->
        CASE j % 4 = 1 -> Write("LedSelect", RegisterValue("FanSelect", <<(j - 1) \div 4>>))
          [] j % 4 = 2 -> Read("LedMode")
          [] j % 4 = 3 -> Read("LedColor")
          [] OTHER -> Read("LedCycleColors")]

SetLedColorsCommands(led, colors) ==
    <<Write("LedSelect", RegisterValue("LedSelect", <<led>>)),
      Write("LedCycleColors", RegisterValue("LedCycleColors", colors))>>

SetLedModeCommands(mode) ==
    <<Write("LedSelect", RegisterValue("LedSelect", <<0>>)),
      Write("LedMode", RegisterValue("LedMode", <<mode>>))>>

PollFansCommands(count) ==
    [j \in 1..(2 * count) |->
        IF j % 2 = 1
        THEN Write("FanSelect", RegisterValue("FanSelect", <<(j - 1) \div 2>>))
        ELSE Read("FanRPM")]

\* what the controller answers for register r when it has `units` units of each kind
DevicePayload(r, units) ==
    IF r \in {"LedCount", "TempSensorCount", "FanCount"} THEN <<units>> ELSE Payload(r, 1)

RECURSIVE DeviceResponseBytes(_, _, _, _)
DeviceResponseBytes(commands, request, k, units) ==
    IF k > Len(commands) THEN <<>>
    ELSE LET c == commands[k] IN
         <<At(request, TxOffset(commands, k)), Opcode[opcode(c)]>>
         \o (IF c.kind = "Read"
             THEN (IF size(c.register) > 2 THEN <<size(c.register)>> ELSE <<>>)
                  \o DevicePayload(c.register, units)
             ELSE <<>>)
         \o DeviceResponseBytes(commands, request, k + 1, units)

\* the reports the last read of an exchange can leave in buf
DeviceReports(p, request) ==
    {Report(DeviceResponseBytes(p.commands, request, 1, MaxUnits)), Zeros(PACKET_SIZE)}

\* the outcomes of self.backend.write_packet(tx), enc being tx.encode()
WritePacketResults(p, enc, checks) ==
    IF enc.kind # "Some" THEN {RxPanic}
    ELSE {RxErr("Error writing to USB device"), RxErr("Error reading from USB device")}
         \cup (IF Len(enc.buf) < 2 THEN {RxPanic}
               ELSE {RxPacketDecode(p, report, checks) : report \in DeviceReports(p, enc.buf)})

\* self.command_id after execute(commands) got result from write_packet
NextCommandIdAfter(commands, result) ==
    IF result.kind = "Ok"
    THEN increment_command_id(dev.command_id, u8(Len(commands)))
    ELSE dev.command_id

\* the field a loop `for value in values { match value { Variant(i) => field = i } }` leaves
Assigned(values, variant, field) ==
    LET hits == {j \in 1..Len(values) : values[j].variant = variant} IN
    IF hits = {} THEN field
    ELSE values[CHOOSE j \in hits : \A h \in hits : h <= j].args[1]

\* the fields pushed by `for value in values { match value { Variant(..) => vec.push(..) } }`
RECURSIVE Pushed(_, _)
Pushed(values, variant) ==
    IF values = <<>> THEN <<>>
    ELSE (IF Head(values).variant = variant THEN <<Head(values).args>> ELSE <<>>)
         \o Pushed(Tail(values), variant)

\* what a handler does with the values execute returned.  get_metadata keeps
\* the unit counts (the id and the two strings are not modelled)
KeepCounts(d, values) ==
    [d EXCEPT !.led_count = Assigned(values, "LedCount", @),
              !.temp_sensor_count = Assigned(values, "TempSensorCount", @),
              !.fan_count = Assigned(values, "FanCount", @)]
\* set_led_colors, set_led_mode: the values are dropped
KeepNothing(d, values) == d
\* poll_temperatures: self.temperatures.push(Temperature(LittleEndian::read_u16(&[lb, hb])))
KeepTemperatures(d, values) ==
    LET read == Pushed(values, "TempSensorValue") IN
    [d EXCEPT !.temperatures = @ \o [j \in 1..Len(read) |-> read[j][1] + 256 * read[j][2]]]
\* poll_fans: self.fan_speeds.push(rpm)
KeepFanSpeeds(d, values) ==
    LET read == Pushed(values, "FanRPM") IN
    [d EXCEPT !.fan_speeds = @ \o [j \in 1..Len(read) |-> read[j][1]]]
\* poll_leds: the three vectors are cleared, then pushed to
KeepLeds(d, values) ==
    LET modes == Pushed(values, "LedMode")
        colors == Pushed(values, "LedColor")
    IN
    [d EXCEPT !.led_modes = [j \in 1..Len(modes) |-> modes[j][1]],
              !.led_colors = [j \in 1..Len(colors) |-> colors[j][1]],
              !.led_cycle_colors = Pushed(values, "LedCycleColors")]

\* the rest of handler once execute returned Ok(values)
Handle(handler, d, values) ==
    CASE handler = "get_metadata" -> KeepCounts(d, values)
      [] handler = "poll_temperatures" -> KeepTemperatures(d, values)
      [] handler = "poll_leds" -> KeepLeds(d, values)
      [] handler = "poll_fans" -> KeepFanSpeeds(d, values)
      [] OTHER -> KeepNothing(d, values)

\* handler calls execute(commands): an Err is returned by `?`, a panic ends
\* the session, Ok(values) goes to the rest of the handler
Execute(commands, handler) ==
    LET p == TxPacket(dev.command_id, commands)
        enc == TxPacketEncode(p, overflow_checks)
    IN
    \E result \in WritePacketResults(p, enc, overflow_checks) :
        /\ tx' = p
        /\ encoded' = enc
        /\ rx' = result
        /\ pc' = IF result.kind = "Panic" THEN "panicked" ELSE "idle"
        /\ dev' = IF result.kind = "Ok"
                  THEN Handle(handler,
                              [dev EXCEPT !.command_id = NextCommandIdAfter(commands, result)],
                              read_values(result.packet))
                  ELSE dev
        /\ UNCHANGED <<overflow_checks, link, response, io, handed, shape>>

InitSession ==
    /\ overflow_checks \in BOOLEAN
    /\ dev = NewDevice
    /\ link = NoLink
    /\ tx = TxPacket(FIRST_COMMAND_ID, <<>>)
    /\ pc = "idle"
    /\ encoded = NotEncoded
    /\ response = <<>>
    /\ rx = NotDecoded
    /\ io = <<>>
    /\ handed = <<>>
    /\ shape = NoShape

get_metadata ==
    /\ pc = "idle"
    /\ Execute(GetMetadataCommands, "get_metadata")

poll_temperatures ==
    /\ pc = "idle"
    /\ Len(dev.temperatures) < MaxReadings
    /\ Execute(PollTemperaturesCommands(dev.temp_sensor_count), "poll_temperatures")

poll_leds ==
    /\ pc = "idle"
    /\ Execute(PollLedsCommands(dev.led_count), "poll_leds")

set_led_colors ==
    /\ pc = "idle"
    /\ \E led \in {0, MaxUnits + 1} :
          IF led > dev.led_count
          THEN /\ rx' = RxErr("Invalid led specified")
               /\ UNCHANGED <<overflow_checks, dev, link, tx, pc, encoded, response, io, handed, shape>>
          ELSE Execute(SetLedColorsCommands(led, <<Red, Black, Red, Black>>), "set_led_colors")

set_led_mode ==
    /\ pc = "idle"
    /\ Execute(SetLedModeCommands([mode |-> "Static", arg |-> 0]), "set_led_mode")

poll_fans ==
    /\ pc = "idle"
    /\ Len(dev.fan_speeds) < MaxReadings
    /\ Execute(PollFansCommands(dev.fan_count), "poll_fans")

\* the handlers that leave no vector longer than they found it
NextSession ==
    \/ get_metadata
    \/ poll_leds
    \/ set_led_colors
    \/ set_led_mode

SpecSession == InitSession /\ [][NextSession]_vars

(***************************************************************************)
(* The polls, on a session whose get_metadata has succeeded once: it took  *)
(* the ids 20..25 and stored the MaxUnits units of each kind the           *)
(* controller reports.                                                     *)
(***************************************************************************)
InitPoll ==
    /\ overflow_checks \in BOOLEAN
    /\ dev = [NewDevice EXCEPT !.command_id = FIRST_COMMAND_ID + Len(GetMetadataCommands),
                               !.led_count = MaxUnits,
                               !.temp_sensor_count = MaxUnits,
                               !.fan_count = MaxUnits]
    /\ link = NoLink
    /\ tx = TxPacket(FIRST_COMMAND_ID, GetMetadataCommands)
    /\ pc = "idle"
    /\ encoded = TxPacketEncode(tx, overflow_checks)
    /\ response = <<>>
    /\ rx = RxPacketDecode(tx, Report(DeviceResponseBytes(tx.commands, encoded.buf, 1, MaxUnits)),
                           overflow_checks)
    /\ io = <<>>
    /\ handed = <<>>
    /\ shape = NoShape

NextPoll == poll_temperatures \/ poll_leds \/ poll_fans

SpecPoll == InitPoll /\ [][NextPoll]_vars

(***************************************************************************)
(* parser.rs: the response grammar, written with nom's combinators.  A     *)
(* parser answers Done(rest, out), Error, or Incomplete when the input     *)
(* ends inside what it reads: [kind, rest, out].                           *)
(***************************************************************************)
Done(rest, out) == [kind |-> "Done", rest |-> rest, out |-> out]
ParseError == [kind |-> "Error", rest |-> <<>>, out |-> <<>>]
Incomplete == [kind |-> "Incomplete", rest |-> <<>>, out |-> <<>>]

\* enum Response ([tag, v], v the variant's field: <<u8>>, <<u16>> or the Vec<u8>) and struct Command
Ack(b) == [tag |-> "Ack", v |-> <<b>>]
ReadOneByte(b) == [tag |-> "ReadOneByte", v |-> <<b>>]
ReadTwoBytes(n) == [tag |-> "ReadTwoBytes", v |-> <<n>>]
ReadManyBytes(bytes) == [tag |-> "ReadManyBytes", v |-> bytes]
ParsedCommand(id, r) == [command_id |-> id, response |-> r]

\* alt!(tag!([0x6]) | tag!([0x8]) | tag!([0xA])) >> (Response::Ack(opcode[0]))
write(i) ==
    IF Len(i) < 1 THEN Incomplete
    ELSE IF i[1] \in {6, 8, 10} THEN Done(Tail(i), Ack(i[1]))
    ELSE ParseError

\* tag!([0x7]) >> b: be_u8
read_one_byte(i) ==
    IF Len(i) < 1 THEN Incomplete
    ELSE IF i[1] # 7 THEN ParseError
    ELSE IF Len(i) < 2 THEN Incomplete
    ELSE Done(SubSeq(i, 3, Len(i)), ReadOneByte(i[2]))

\* mutant: the 16-bit value is read big-endian
read_two_bytes_BigEndian(i) ==
    IF Len(i) < 1 THEN Incomplete
    ELSE IF i[1] # 9 THEN ParseError
    ELSE IF Len(i) < 3 THEN Incomplete
    ELSE Done(SubSeq(i, 4, Len(i)), ReadTwoBytes(256 * i[2] + i[3]))

\* tag!([0x9]) >> n: le_u16
read_two_bytes(i) ==
    IF Len(i) < 1 THEN Incomplete
    ELSE IF i[1] # 9 THEN ParseError
    ELSE IF Len(i) < 3 THEN Incomplete
    ELSE Done(SubSeq(i, 4, Len(i)), ReadTwoBytes(i[2] + 256 * i[3]))

\* tag!([0xB]) >> data: length_bytes!(be_u8)
read_many_bytes(i) ==
    IF Len(i) < 1 THEN Incomplete
    ELSE IF i[1] # 11 THEN ParseError
    ELSE IF Len(i) < 2 THEN Incomplete
    ELSE IF Len(i) < 2 + i[2] THEN Incomplete
    ELSE Done(SubSeq(i, 3 + i[2], Len(i)), ReadManyBytes(SubSeq(i, 3, 2 + i[2])))

\* alt!(write | read_one_byte | read_two_bytes | read_many_bytes): the first
\* branch that does not answer Error
ack(i) ==
    IF write(i).kind # "Error" THEN write(i)
    ELSE IF read_one_byte(i).kind # "Error" THEN read_one_byte(i)
    ELSE IF read_two_bytes(i).kind # "Error" THEN read_two_bytes(i)
    ELSE read_many_bytes(i)

\* id: be_u8 >> response: ack >> (Command { command_id: id, response })
command(i) ==
    IF Len(i) < 1 THEN Incomplete
    ELSE LET r == ack(Tail(i)) IN
         IF r.kind # "Done" THEN r
         ELSE Done(r.rest, ParsedCommand(i[1], r.out))

\* the loop of many1!: stop at the end of the input or at the first Error
RECURSIVE many1_loop(_, _)
many1_loop(i, res) ==
    IF Len(i) = 0 THEN Done(i, res)
    ELSE LET r == command(i) IN
         CASE r.kind = "Error" -> Done(i, res)
           [] r.kind = "Incomplete" -> Incomplete
           [] OTHER -> IF Len(r.rest) = Len(i) THEN Done(i, res)
                       ELSE many1_loop(r.rest, Append(res, r.out))

\* named!(commands, many1!(command))
many1_command(i) ==
    LET r == command(i) IN
    IF r.kind # "Done" THEN r
    ELSE many1_loop(r.rest, <<r.out>>)

\* the bytes the controller sends for one command
ResponseBody(r) ==
    CASE r.tag = "Ack" -> r.v
      [] r.tag = "ReadOneByte" -> <<7>> \o r.v
      [] r.tag = "ReadTwoBytes" -> <<9, r.v[1] % 256, r.v[1] \div 256>>
      [] OTHER -> <<11, Len(r.v)>> \o r.v

RECURSIVE ParserInput(_)
ParserInput(cmds) ==
    IF cmds = <<>> THEN <<>>
    ELSE <<Head(cmds).command_id>> \o ResponseBody(Head(cmds).response)
         \o ParserInput(Tail(cmds))

ResponsePool ==
    {Ack(6), Ack(8), Ack(10), ReadOneByte(66), ReadTwoBytes(4162),
     ReadManyBytes(<<1, 2, 3, 4>>)}
\* the id of the first command: ids follow one another; 7 is also an opcode
ParserFirstIds == {16, 7}
\* what follows the commands in the input: nothing, padding, a cut command
ParserTails == {<<>>, <<0, 0, 0>>, <<0>>, <<33, 9, 66>>}

ParserInputs ==
    {[j \in 1..Len(rs) |-> ParsedCommand(id + j - 1, rs[j])] :
        id \in ParserFirstIds, rs \in SeqsUpTo(ResponsePool, MaxParsed)}

InitParser ==
    /\ overflow_checks = FALSE
    /\ dev = NewDevice
    /\ link = NoLink
    /\ tx = TxPacket(FIRST_COMMAND_ID, <<>>)
    /\ pc = "input"
    /\ encoded = NotEncoded
    /\ \E cmds \in ParserInputs, tail \in ParserTails :
          /\ shape = [cmds |-> cmds, tail |-> tail]
          /\ response = ParserInput(cmds) \o tail
    /\ rx = NotDecoded
    /\ io = <<>>
    /\ handed = <<>>

\* command(&input)
ParseOne ==
    /\ pc = "input"
    /\ rx' = command(response)
    /\ pc' = "parsed one"
    /\ UNCHANGED <<overflow_checks, dev, link, tx, encoded, response, io, handed, shape>>

\* commands(&input)
ParseAll ==
    /\ pc = "input"
    /\ rx' = many1_command(response)
    /\ pc' = "parsed all"
    /\ UNCHANGED <<overflow_checks, dev, link, tx, encoded, response, io, handed, shape>>

NextParser == ParseOne \/ ParseAll

SpecParser == InitParser /\ [][NextParser]_vars

(***************************************************************************)
(* A session over the transport, one transport call at a time.  The        *)
(* controller answers each request it receives exactly once, echoing the   *)
(* request's ids; its report waits at the interrupt endpoint until a read  *)
(* takes it, and a read that times out takes nothing.  link.unread holds   *)
(* the waiting reports, oldest first, each with `fresh`: it answers the    *)
(* write of the exchange under way; link.taken is `fresh` of the report    *)
(* the last read took ("-" before any read of the exchange).               *)
(***************************************************************************)
\* most reports left waiting when a handler is called
MaxUnread == 1

\* the command lists of get_metadata and poll_leds
LinkBatches == {GetMetadataCommands, PollLedsCommands(dev.led_count)}

\* the handler whose execute is under way
LinkHandler == IF tx.commands = GetMetadataCommands THEN "get_metadata" ELSE "poll_leds"

\* the reports still waiting when the next exchange starts answer earlier writes
Aged(unread) == [j \in 1..Len(unread) |-> [unread[j] EXCEPT !.fresh = FALSE]]

\* the controller's answer to the request it received
Answer(p, request) ==
    [report |-> Report(DeviceResponseBytes(p.commands, request, 1, MaxUnits)), fresh |-> TRUE]

InitLink ==
    /\ overflow_checks \in BOOLEAN
    /\ dev = NewDevice
    /\ link = NoLink
    /\ tx = TxPacket(FIRST_COMMAND_ID, <<>>)
    /\ pc = "idle"
    /\ encoded = NotEncoded
    /\ response = <<>>
    /\ rx = NotDecoded
    /\ io = <<>>
    /\ handed = <<>>
    /\ shape = NoShape

\* a handler calls execute: TxPacket::new(self.command_id, commands), then
\* write_packet's packet.encode().unwrap()
LinkCall ==
    /\ pc = "idle"
    /\ Len(link.unread) <= MaxUnread
    /\ \E commands \in LinkBatches :
          /\ tx' = TxPacket(dev.command_id, commands)
          /\ encoded' = TxPacketEncode(tx', overflow_checks)
    /\ pc' = IF encoded'.kind = "Some" THEN "encoded" ELSE "panicked"
    /\ rx' = IF encoded'.kind = "Some" THEN NotDecoded ELSE RxPanic
    /\ link' = [unread |-> Aged(link.unread), taken |-> "-"]
    /\ io' = <<>>
    /\ handed' = <<>>
    /\ UNCHANGED <<overflow_checks, dev, response, shape>>

\* self.write(&encoded[..])?;  let mut buf = vec![0u8; PACKET_SIZE];
LinkWrite ==
    /\ pc = "encoded"
    /\ \E ok \in BOOLEAN :
          /\ io' = Append(io, IoWrite(ok))
          /\ IF ok
             THEN /\ pc' = "reading"
                  /\ rx' = rx
                  /\ response' = Zeros(PACKET_SIZE)
                  /\ link' = [link EXCEPT !.unread = Append(@, Answer(tx, encoded.buf))]
             ELSE /\ pc' = "idle"
                  /\ rx' = RxErr("Error writing to USB device")
                  /\ response' = response
                  /\ link' = link
    /\ UNCHANGED <<overflow_checks, dev, tx, encoded, handed, shape>>

\* self.read(buf.as_mut_slice())?;  if buf[0] != encoded[1] { ... }
LinkRead ==
    /\ pc = "reading"
    /\ \/ /\ io' = Append(io, IoRead(FALSE, <<>>))
          /\ pc' = "idle"
          /\ rx' = RxErr("Error reading from USB device")
          /\ response' = response
          /\ link' = link
       \/ /\ link.unread # <<>>
          /\ LET taken == Head(link.unread)
                 to == AfterRead(ReadsIssued + 1, taken.report)
             IN
             /\ io' = Append(io, IoRead(TRUE, taken.report))
             /\ response' = ReadInto(response, taken.report)
             /\ link' = [unread |-> Tail(link.unread), taken |-> taken.fresh]
             /\ pc' = IF to = "panic" THEN "panicked" ELSE to
             /\ rx' = IF to = "panic" THEN RxPanic ELSE rx
    /\ UNCHANGED <<overflow_checks, dev, tx, encoded, handed, shape>>

\* RxPacket::decode(packet, &buf[..]), then the rest of execute and of the
\* handler: `?` on an Err, else command_id moves on and the values are kept
LinkDecode ==
    /\ pc = "decoding"
    /\ handed' = <<response>>
    /\ rx' = RxPacketDecode(tx, response, overflow_checks)
    /\ pc' = IF rx'.kind = "Panic" THEN "panicked" ELSE "idle"
    /\ dev' = IF rx'.kind = "Ok"
              THEN Handle(LinkHandler,
                          [dev EXCEPT !.command_id =
                              increment_command_id(@, u8(Len(tx.commands)))],
                          read_values(rx'.packet))
              ELSE dev
    /\ UNCHANGED <<overflow_checks, link, tx, encoded, response, io, shape>>

NextLink == LinkCall \/ LinkWrite \/ LinkRead \/ LinkDecode

SpecLink == InitLink /\ [][NextLink]_vars

(***************************************************************************)
(* Properties.  Spec: TxPacket::encode.  SpecDecode: encode, the           *)
(* controller's report, RxPacket::decode.  SpecExchange: write_packet.     *)
(***************************************************************************)
Commands == tx.commands
NumCommands == Len(tx.commands)
Encoded == encoded.kind = "Some"
\* the id byte and the opcode byte of command k in the encoded request
IdByte(k) == At(encoded.buf, TxOffset(Commands, k))
OpcodeByte(k) == At(encoded.buf, TxOffset(Commands, k) + 1)

WidthOpcode(c) ==
    IF c.kind = "Read"
    THEN (IF size(c.register) = 1 THEN 7 ELSE IF size(c.register) = 2 THEN 9 ELSE 11)
    ELSE (IF size(c.register) = 1 THEN 6 ELSE IF size(c.register) = 2 THEN 8 ELSE 10)

\* C1: the opcode byte of every encoded command is fixed by the operation
\* kind and the register width (Read: 1 -> 0x07, 2 -> 0x09, other -> 0x0b;
\* Write: 1 -> 0x06, 2 -> 0x08, other -> 0x0a), and no width makes encode
\* answer None.
C1_OpcodeByWidth ==
    /\ encoded.kind # "None"
    /\ Encoded => \A k \in 1..NumCommands : OpcodeByte(k) = WidthOpcode(Commands[k])

C1_Witness ==
    /\ Encoded
    /\ \E k \in 1..NumCommands : Commands[k].kind = "Read" /\ size(Commands[k].register) = 8
    /\ \E k \in 1..NumCommands : Commands[k].kind = "Read" /\ size(Commands[k].register) = 2
    /\ \E k \in 1..NumCommands : Commands[k].kind = "Write" /\ size(Commands[k].register) = 12
    /\ \E k \in 1..NumCommands : Commands[k].kind = "Write" /\ size(Commands[k].register) = 1

\* C2: in the buffer encode returns, command k (k = 0, 1, ...) is prefixed
\* by the id first_command_id + k.
C2_SequenceIds ==
    Encoded => \A k \in 1..NumCommands : IdByte(k) = tx.first_command_id + (k - 1)

\* C3: byte 0 of the buffer encode returns is the number of bytes after it
\* up to the end of the last command.
C3_LengthByte ==
    Encoded => At(encoded.buf, 0) = TxPacketLen(tx) - 1

\* C4: every buffer encode returns is exactly PACKET_SIZE bytes long and is
\* zero after the end of the last command.
C4_FixedSizeZeroPadded ==
    Encoded =>
        /\ Len(encoded.buf) = PACKET_SIZE
        /\ \A j \in 1..Len(encoded.buf) : j > TxPacketLen(tx) => encoded.buf[j] = 0

\* C5: a batch whose encoded length exceeds PACKET_SIZE makes encode fail:
\* no buffer is returned for it.
C5_OversizedFails ==
    (pc # "new" /\ TxPacketLen(tx) > PACKET_SIZE) => encoded.kind # "Some"

(***************************************************************************)
(* write_packet, over the log io of its transport calls.                   *)
(***************************************************************************)
WriteCalls == {j \in 1..Len(io) : io[j].op = "write"}
ReadCalls == {j \in 1..Len(io) : io[j].op = "read"}
Returned == pc = "done" /\ rx.kind # "Panic"
\* the call io[j] is a read that succeeded with a first byte other than the first id written
Mismatch(j) ==
    /\ j <= Len(io)
    /\ io[j].op = "read"
    /\ io[j].ok
    /\ Len(encoded.buf) >= 2
    /\ At(io[j].buf, 0) # At(encoded.buf, 1)

\* C6 as stated: a call that returns has seen exactly one write, before any
\* read, then between 1 and 3 reads, the second (third) read issued iff the
\* first (second) read's buffer starts with another byte than the first id
\* written.
C6_OneWriteThenOneToThreeReads ==
    Returned =>
        /\ WriteCalls = {1}
        /\ Cardinality(ReadCalls) \in 1..3
        /\ \A j \in 2..3 : (j + 1 <= Len(io)) <=> Mismatch(j)

\* C6, amended: at most one write, the first transport call, never a second
\* one; reads only after a write that succeeded, at most 3 of them; a call
\* that returns has written exactly once and, if the write succeeded, has
\* read at least once; a second (third) read is issued iff the first
\* (second) read succeeded and its buffer starts with another byte than the
\* first id written.
C6_OneWriteAtMostThreeReads ==
    /\ WriteCalls \subseteq {1}
    /\ Cardinality(ReadCalls) <= 3
    /\ ReadCalls # {} => (io[1].op = "write" /\ io[1].ok)
    /\ Returned => (WriteCalls = {1} /\ (io[1].ok => ReadCalls # {}))
    /\ \A j \in 2..3 : (j + 1 <= Len(io)) => Mismatch(j)
    /\ \A j \in 2..3 : (Mismatch(j) /\ pc \in {"decoding", "done"}) => j + 1 <= Len(io)

C6_Witness ==
    /\ Returned
    /\ Len(io) = 4
    /\ Mismatch(2)
    /\ Mismatch(3)
    /\ ~Mismatch(4)

\* C7: when all 3 reads succeed and each returns a buffer whose byte 0 is
\* not the first id written, the third buffer is the one handed to
\* RxPacket::decode and the call returns the error "Bad command ID".
C7_ExhaustedRetriesDecode ==
    (pc = "done" /\ Mismatch(2) /\ Mismatch(3) /\ Mismatch(4)) =>
        /\ handed = <<io[4].buf>>
        /\ rx = RxErr("Bad command ID")

C7_Witness ==
    pc = "done" /\ Mismatch(2) /\ Mismatch(3) /\ Mismatch(4) /\ io[4].buf # io[3].buf

\* C8: a transport call that fails is the last one of the exchange, its
\* error is what write_packet returns, and nothing is handed to decode.
C8_TransportFailureEnds ==
    \A j \in 1..Len(io) :
        ~io[j].ok =>
            /\ j = Len(io)
            /\ pc = "done"
            /\ handed = <<>>
            /\ rx = RxErr(IF io[j].op = "write" THEN "Error writing to USB device"
                          ELSE "Error reading from USB device")

C8_Witness ==
    /\ pc = "done"
    /\ Len(io) = 3
    /\ Mismatch(2)
    /\ ~io[3].ok

(***************************************************************************)
(* RxPacket::decode, over the report the controller built.                 *)
(***************************************************************************)
\* the cursor of the decoder at command k: each command before it takes its
\* id byte, its opcode byte and, for a read, the payload (a block: behind a
\* length byte)
RECURSIVE Cursor(_)
Cursor(k) ==
    IF k = 1 THEN 0
    ELSE LET c == Commands[k - 1] IN
         Cursor(k - 1) + 2
         + (IF c.kind = "Read"
            THEN size(c.register) + (IF size(c.register) > 2 THEN 1 ELSE 0)
            ELSE 0)

\* the decoder gets as far as command k: the commands before it decode
ReachesCommand(k) ==
    /\ Cursor(k) < Len(response)
    /\ RxPacketDecode(TxPacket(tx.first_command_id, SubSeq(Commands, 1, k - 1)),
                      response, overflow_checks).kind = "Ok"

\* C9: decode answers the error "Bad command ID", and no packet, whenever
\* the byte at the decoder's cursor for some command k = 0, 1, ... is not
\* first_command_id + k.
C9_BadSequenceId ==
    pc = "decoded" =>
        \A k \in 1..NumCommands :
            (ReachesCommand(k) /\ At(response, Cursor(k)) # tx.first_command_id + (k - 1))
                => rx = RxErr("Bad command ID")

IsRead(c) == c.kind = "Read"
ReadCommands == SelectSeq(Commands, IsRead)
PayloadsValid ==
    \A k \in 1..NumCommands :
        IsRead(Commands[k]) =>
            ValueDecode(Commands[k].register, Payload(Commands[k].register, shape.v)).kind = "Ok"
\* the values of the payloads the controller sent, in command order
PayloadValues ==
    [j \in 1..Len(ReadCommands) |->
        ValueDecode(ReadCommands[j].register, Payload(ReadCommands[j].register, shape.v)).value]
\* bytes of the response before the padding
ResponseLen ==
    Len(ResponseBytes(Commands, encoded.buf, 1, shape.layout, shape.v, shape.badId, shape.badLen))
LastIsBlockRead ==
    /\ NumCommands > 0
    /\ IsRead(Commands[NumCommands])
    /\ size(Commands[NumCommands].register) > 2
Echoed == shape.badId = 0 /\ ~shape.badLen

ExamplePacket == TxPacket(FIRST_COMMAND_ID, ExampleBatch)
ExampleValues ==
    <<RegisterValue("DeviceId", <<42>>),
      RegisterValue("FirmwareVersion", decode_firmware_version(1, 3))>>

\* C11: encoding [Read(DeviceId), Read(FirmwareVersion)] with first id 20
\* gives a 64-byte buffer starting [0x05, 20, 0x07, 0x00, 21, 0x09, 0x01]
\* and zero from there on.
C11_ExampleRequest ==
    (pc # "new" /\ tx = ExamplePacket) =>
        /\ Encoded
        /\ Len(encoded.buf) = PACKET_SIZE
        /\ SubSeq(encoded.buf, 1, 7) = <<5, 20, 7, 0, 21, 9, 1>>
        /\ \A j \in 8..PACKET_SIZE : encoded.buf[j] = 0

\* C12 as stated: the report [20, 0x2a, 21, 0x01, 0x03], zero padded,
\* decodes against the example packet to DeviceId 0x2a and the
\* FirmwareVersion of the bytes (0x01, 0x03).
C12_ExampleResponseIdThenPayload ==
    (pc = "decoded" /\ tx = ExamplePacket /\ response = Report(<<20, 42, 21, 1, 3>>)) =>
        /\ rx.kind = "Ok"
        /\ read_values(rx.packet) = ExampleValues

\* C12, amended: the report [20, 0x07, 0x2a, 21, 0x09, 0x01, 0x03], zero
\* padded (each id followed by the opcode byte, then the payload), decodes
\* against the example packet to DeviceId 0x2a and the FirmwareVersion of
\* the bytes (0x01, 0x03), in that order.
C12_ExampleResponseWire ==
    (pc = "decoded" /\ tx = ExamplePacket /\ response = Report(<<20, 7, 42, 21, 9, 1, 3>>)) =>
        /\ rx.kind = "Ok"
        /\ read_values(rx.packet) = ExampleValues

C12_Witness ==
    /\ pc = "decoded"
    /\ tx = ExamplePacket
    /\ response = Report(<<20, 7, 42, 21, 9, 1, 3>>)
    /\ Len(rx.packet) = 2

\* C13: a decode that succeeds gives one entry per command, in command
\* order, of the command's kind and register, a Read entry holding the
\* value decoded at that command's place in the report; read_values is the
\* list of the Read entries' values in that order, Write entries left out,
\* so it is as long as the batch has Read commands.
C13_ReadValuesInOrder ==
    (pc = "decoded" /\ rx.kind = "Ok") =>
        /\ Len(rx.packet) = NumCommands
        /\ \A k \in 1..NumCommands :
              /\ rx.packet[k].kind = Commands[k].kind
              /\ rx.packet[k].register = Commands[k].register
              /\ IsRead(Commands[k]) =>
                    rx.packet[k] =
                        decode_read(Commands[k].register,
                                    Slice(response, Cursor(k) + 2, Len(response))).value
        /\ LET reads == SelectSeq(rx.packet, IsRead) IN
           read_values(rx.packet) = [j \in 1..Len(reads) |-> reads[j].value]
        /\ Len(read_values(rx.packet)) = Len(ReadCommands)

C13_Witness ==
    /\ pc = "decoded"
    /\ rx.kind = "Ok"
    /\ NumCommands = 3
    /\ IsRead(Commands[1])
    /\ ~IsRead(Commands[2])
    /\ IsRead(Commands[3])
    /\ Commands[1].register # Commands[3].register
    /\ Len(read_values(rx.packet)) = 2

\* the Write command k carries a value whose encode answers None
NotEncodable(k) ==
    /\ Commands[k].kind = "Write"
    /\ ValueEncode(Commands[k].value, Zeros(size(Commands[k].register))).kind = "None"

\* C14: a batch holding a Write whose value is not encodable does not
\* encode: no buffer is returned for it.
C14_NotEncodableFails ==
    (pc # "new" /\ \E k \in 1..NumCommands : NotEncodable(k)) => encoded.kind # "Some"

(***************************************************************************)
(* The layout of one encoded command.                                      *)
(***************************************************************************)
IsBlock(c) == size(c.register) \notin {1, 2}
\* the register.size() operand bytes of a Write: what the value's encode
\* wrote, zero where it wrote nothing
Operand(c) ==
    LET bytes == ValueBytes(c.value) IN
    [j \in 1..size(c.register) |-> IF j <= Len(bytes) THEN bytes[j] ELSE 0]
\* [opcode][register id], then the operand of a Write
StatedBody(c) ==
    <<WidthOpcode(c), RegisterId(c.register)>>
    \o (IF c.kind = "Write" THEN Operand(c) ELSE <<>>)
\* [opcode][register id], for a block register [size], then the operand of a Write
WireBody(c) ==
    <<WidthOpcode(c), RegisterId(c.register)>>
    \o (IF IsBlock(c) THEN <<size(c.register)>> ELSE <<>>)
    \o (IF c.kind = "Write" THEN Operand(c) ELSE <<>>)
\* the bytes after byte 0 when command j (from k on) is its id then StatedBody / WireBody
RECURSIVE StatedCommands(_)
StatedCommands(k) ==
    IF k > NumCommands THEN <<>>
    ELSE <<u8(tx.first_command_id + k - 1)>> \o StatedBody(Commands[k]) \o StatedCommands(k + 1)
RECURSIVE WireCommands(_)
WireCommands(k) ==
    IF k > NumCommands THEN <<>>
    ELSE <<u8(tx.first_command_id + k - 1)>> \o WireBody(Commands[k]) \o WireCommands(k + 1)

\* C15 as stated: after its id byte every command is encoded as
\* [opcode][register id] for a Read and [opcode][register id][register.size()
\* operand bytes] for a Write, whatever the register width.
C15_BodyWithoutLength ==
    Encoded => Tail(encoded.buf) = StatedCommands(1)

\* C15, amended: after its id byte a command on a register of width 1 or 2
\* is encoded as [opcode][register id] for a Read and [opcode][register id]
\* [register.size() operand bytes] for a Write; on a block register a byte
\* equal to register.size() follows the register id, so a block Read takes 3
\* bytes and a block Write 3 + register.size().  (The earlier codec of
\* src/h110i.rs encodes every command without that byte.)
C15_BodyByWidth ==
    /\ Encoded => Tail(encoded.buf) = WireCommands(1)
    /\ \A k \in 1..NumCommands :
          LET c == Commands[k] IN
          /\ CommandLen(c) = Len(WireBody(c))
          /\ c.register \in LegacyRegister =>
                /\ LegacyCommandLen(c) = Len(StatedBody(c))
                /\ encode_into(c, Zeros(LegacyCommandLen(c))).kind = "Some"
                /\ encode_into(c, Zeros(LegacyCommandLen(c))).buf = StatedBody(c)

C15_Witness ==
    /\ Encoded
    /\ NumCommands = 4
    /\ \E k \in 1..NumCommands : IsRead(Commands[k]) /\ IsBlock(Commands[k])
    /\ \E k \in 1..NumCommands : ~IsRead(Commands[k]) /\ IsBlock(Commands[k])
    /\ \E k \in 1..NumCommands : ~IsRead(Commands[k]) /\ size(Commands[k].register) = 2
    /\ \E k \in 1..NumCommands : IsRead(Commands[k]) /\ size(Commands[k].register) = 1

\* the offset in the request of the id byte of command k, a block command
\* taking one byte more than [id][opcode][register id][operand]
RECURSIVE Start(_)
Start(k) ==
    IF k = 1 THEN 1
    ELSE LET c == Commands[k - 1] IN
         Start(k - 1) + 3
         + (IF IsBlock(c) THEN 1 ELSE 0)
         + (IF c.kind = "Write" THEN size(c.register) ELSE 0)

\* C16: in a block command the byte after the register id is
\* register.size(): a block Read is [0x0b][register id][size], a block Write
\* [0x0a][register id][size] and size data bytes; a command on a register of
\* width 1 or 2 has no such byte (its operand, or the next command, comes
\* right after the register id).
C16_BlockLenByte ==
    Encoded =>
        /\ Len(encoded.buf) = Start(NumCommands + 1)
        /\ \A k \in 1..NumCommands :
              LET c == Commands[k]
                  at == Start(k)
                  sz == size(c.register)
              IN
              /\ At(encoded.buf, at) = u8(tx.first_command_id + k - 1)
              /\ At(encoded.buf, at + 2) = RegisterId(c.register)
              /\ IF IsBlock(c)
                 THEN /\ At(encoded.buf, at + 1) = (IF IsRead(c) THEN 11 ELSE 10)
                      /\ At(encoded.buf, at + 3) = sz
                      /\ ~IsRead(c) => Slice(encoded.buf, at + 4, at + 4 + sz) = Operand(c)
                 ELSE /\ At(encoded.buf, at + 1) \in {6, 7, 8, 9}
                      /\ ~IsRead(c) => Slice(encoded.buf, at + 3, at + 3 + sz) = Operand(c)

C16_Witness ==
    /\ Encoded
    /\ NumCommands = 3
    /\ IsRead(Commands[1]) /\ IsBlock(Commands[1])
    /\ ~IsRead(Commands[2]) /\ IsBlock(Commands[2])
    /\ ~IsBlock(Commands[3])

\* C17: every sequence id a session writes lies in [20, 255], and within one
\* packet each id is greater than the id before it (ids roll over only
\* between exchanges).
C17_IdsInRangeNoWrap ==
    Encoded =>
        \A k \in 1..NumCommands :
            /\ IdByte(k) \in FIRST_COMMAND_ID..255
            /\ k > 1 => IdByte(k) > IdByte(k - 1)

\* C18: the parser takes one response command, an id byte and a body
\* tagged by its opcode (0x06, 0x08, 0x0A alone: Ack; 0x07 and a byte:
\* ReadOneByte; 0x09 and two bytes: ReadTwoBytes, little-endian; 0x0B, a
\* length n and n bytes: ReadManyBytes), consumes exactly its bytes and
\* leaves the rest; a concatenation of such commands parses to the list of
\* the commands, in input order, with their ids.
C18_ParserGrammar ==
    /\ (pc = "parsed one" /\ shape.cmds # <<>>) =>
          rx = Done(ParserInput(Tail(shape.cmds)) \o shape.tail, Head(shape.cmds))
    /\ (pc = "parsed all" /\ shape.cmds # <<>> /\ shape.tail = <<>>) =>
          rx = Done(<<>>, shape.cmds)

C18_Witness ==
    /\ pc = "parsed all"
    /\ shape.tail = <<>>
    /\ Len(shape.cmds) = 3
    /\ shape.cmds[1].response.tag = "ReadManyBytes"
    /\ shape.cmds[2].response.tag = "ReadTwoBytes"
    /\ shape.cmds[3].response.tag = "Ack"
    /\ rx.kind = "Done"
    /\ Len(rx.out) = 3

\* C19: the buffer write_packet hands to RxPacket::decode is the content of
\* the last read of the exchange, and the result is the decoding of that
\* report alone: after a first read with a stale id at byte 0 and a second
\* read with the expected id, the second report is decoded and nothing of
\* the first is.
C19_LastReadDecoded ==
    (pc = "done" /\ handed # <<>>) =>
        /\ io[Len(io)].op = "read"
        /\ io[Len(io)].ok
        /\ handed = <<io[Len(io)].buf>>
        /\ rx = RxPacketDecode(tx, io[Len(io)].buf, overflow_checks)
        /\ (Len(io) = 3 /\ Mismatch(2)) => ~Mismatch(3)

C19_Witness ==
    /\ pc = "done"
    /\ Len(io) = 3
    /\ Mismatch(2)
    /\ io[2].buf # Zeros(PACKET_SIZE)
    /\ ~Mismatch(3)
    /\ io[3].ok
    /\ handed = <<io[3].buf>>
    /\ rx.kind = "Ok"
    /\ read_values(rx.packet) # <<>>

\* C20: for every Read the decoder hands the value's decode exactly
\* register.size() bytes: the payload of that command in the report and no
\* byte of what follows it.
C20_ExactPayloadSlice ==
    pc = "decoded" =>
        \A k \in 1..NumCommands :
            (IsRead(Commands[k]) /\ ReachesCommand(k) /\ Cursor(k) + 2 <= Len(response)) =>
                LET s == ReadSlice(Commands[k].register,
                                   Slice(response, Cursor(k) + 2, Len(response)))
                IN s.kind = "Ok" => Len(s.buf) = size(Commands[k].register)

\* what decode_read answers for the Read command k at its place in the report
ReadAt(k) ==
    decode_read(Commands[k].register, Slice(response, Cursor(k) + 2, Len(response)))

\* C21: when the payload of a Read command does not decode (block length
\* byte other than register.size(), or an error of the value's decode), at
\* whatever position of the batch, RxPacket::decode answers that error and
\* no packet: nothing decoded for the commands before it is returned.
C21_DecodeErrorAborts ==
    pc = "decoded" =>
        \A k \in 1..NumCommands :
            (IsRead(Commands[k]) /\ ReachesCommand(k) /\ Cursor(k) + 2 <= Len(response)
                /\ ReadAt(k).kind = "Err") =>
                    /\ rx.kind = "Err"
                    /\ rx.packet = <<>>
                    /\ At(response, Cursor(k)) = u8(tx.first_command_id + k - 1)
                          => rx.msg = ReadAt(k).msg

C21_Witness ==
    /\ pc = "decoded"
    /\ NumCommands = 3
    /\ IsRead(Commands[1])
    /\ IsRead(Commands[3])
    /\ ReachesCommand(3)
    /\ ReadAt(3).kind = "Err"
    /\ rx = RxErr("Invalid LED mode byte")

(***************************************************************************)
(* The session: Device::execute and the handlers built on it.              *)
(***************************************************************************)
\* C22: the session's command_id starts at 20; an execute of n commands
\* started at command_id c that succeeds leaves c + n when c + n <= 255 and
\* 20 otherwise; an execute that fails with an error (and a handler that
\* returns before execute) leaves command_id as it was; so command_id is in
\* [20, 255] throughout.
C22_CommandIdThreaded ==
    /\ dev.command_id = FIRST_COMMAND_ID
    /\ [][ /\ dev'.command_id \in FIRST_COMMAND_ID..255
           /\ IF rx'.kind = "Ok"
              THEN /\ tx'.first_command_id = dev.command_id
                   /\ dev'.command_id =
                         (IF dev.command_id + Len(tx'.commands) <= 255
                          THEN dev.command_id + Len(tx'.commands)
                          ELSE FIRST_COMMAND_ID)
              ELSE dev'.command_id = dev.command_id ]_vars

C22_Witness ==
    /\ pc = "idle"
    /\ rx.kind = "Ok"
    /\ tx.first_command_id + NumCommands > 255
    /\ dev.command_id = FIRST_COMMAND_ID

\* C23: over any sequence of exchanges of a session, exchanges ending with
\* a read timeout or a bad-sequence-id error included, a report the
\* controller produced in answer to an earlier write is never decoded
\* successfully as the response to a later write.
C23_NoStaleReportDecoded ==
    (rx.kind = "Ok" /\ handed # <<>>) => link.taken = TRUE

\* C24: for every batch whose encoded request fits in PACKET_SIZE bytes,
\* RxPacket::decode over the 64-byte report reads no byte outside the
\* report, neither for an id nor for a Read payload: it ends with a packet
\* or an error value.  (Batches whose ids stay below 256, so that no panic
\* here is an arithmetic overflow.)
C24_DecodeStaysInBuffer ==
    (pc = "decoded" /\ TxPacketLen(tx) <= PACKET_SIZE /\ Len(response) = PACKET_SIZE
        /\ tx.first_command_id + NumCommands <= 255)
    => rx.kind \in {"Ok", "Err"}

\* C25: write_packet on a TxPacket with no commands (poll_temperatures,
\* poll_fans or poll_leds while the count is 0) completes without fault: it
\* does not index past the end of the encoded buffer, and when the
\* transport calls succeed it returns a packet with no values.
C25_EmptyBatchCompletes ==
    (pc = "done" /\ NumCommands = 0) =>
        /\ rx.kind # "Panic"
        /\ (\A j \in 1..Len(io) : io[j].ok) => (rx.kind = "Ok" /\ read_values(rx.packet) = <<>>)

(***************************************************************************)
(* The readings a poll stores.                                             *)
(***************************************************************************)
\* the call that returned last is a poll of these commands, and it succeeded
Polled(commands) == pc = "idle" /\ rx.kind = "Ok" /\ tx.commands = commands

\* C26: after successful polls the stored readings hold one entry per unit
\* of the latest poll: temperatures has temp_sensor_count entries,
\* fan_speeds fan_count, and led_modes, led_colors and led_cycle_colors
\* led_count each; a poll that is repeated replaces the readings of the one
\* before it.
C26_ReadingsPerUnit ==
    /\ Polled(PollTemperaturesCommands(dev.temp_sensor_count)) =>
          Len(dev.temperatures) = dev.temp_sensor_count
    /\ Polled(PollFansCommands(dev.fan_count)) =>
          Len(dev.fan_speeds) = dev.fan_count
    /\ Polled(PollLedsCommands(dev.led_count)) =>
          /\ Len(dev.led_modes) = dev.led_count
          /\ Len(dev.led_colors) = dev.led_count
          /\ Len(dev.led_cycle_colors) = dev.led_count

====
